---------------------------- MODULE Spec2Model ----------------------------
(***************************************************************************)
(* Model of the kafka-pixy configuration loader, src/config/config.go:     *)
(* FromYAML (default/override merge of every proxy block, default cluster  *)
(* selection), App.validate / Proxy.validate and newClientID / getIP.      *)
(*                                                                         *)
(* Conventions.  A Go string that the code only compares or copies is a    *)
(* TLA+ string; a string the code builds or rewrites character by          *)
(* character (the client id) is a sequence of one-character strings.  A    *)
(* time.Duration is an integer number of milliseconds.  A Go error is the  *)
(* sequence of the message parts of its wrap chain, outermost first, and   *)
(* the nil error is the empty sequence.  A pointer result is a sequence of *)
(* length 0 (nil) or 1.                                                    *)
(***************************************************************************)
EXTENDS Integers, Sequences, FiniteSets, TLC

VARIABLES
    data,       \* FromYAML: the document handed in (already tokenised)
    env,        \* value of the KAFKA_VERSION environment variable ("" unset)
    os,         \* what the OS answers to Hostname, InterfaceAddrs, rand, Now, Getpid
    pc,         \* position in the function being run
    idx,        \* FromYAML: number of proxy items the loop has processed
    clientID,   \* FromYAML: local clientID; newClientID: the value returned
    appCfg,     \* FromYAML: local appCfg
    ret,        \* FromYAML: the returned pair (app, err)
    p,          \* Proxy.validate: the receiver
    verr        \* Proxy.validate: the returned error

vars == <<data, env, os, pc, idx, clientID, appCfg, ret, p, verr>>

-----------------------------------------------------------------------------
(* Bounds of the model *)

\* longest proxies section of an input document
MaxItems == 2
\* longest list of interface addresses the OS reports
MaxAddrs == 2

-----------------------------------------------------------------------------
(* Constants and lookup tables, config.go lines 18-44 *)

defaultCompression == "snappy"
defaultRequiredAcks == "wait_for_all"
defaultKafkaVersion == "0.8.2.2"

compressionCodecs == {"none", "gzip", "snappy", "lz4"}
producerAcks == {"no_response", "wait_for_local", "wait_for_all"}
kafkaVersions == {"0.8.2.2", "0.9.0.0", "0.9.0.1", "0.10.0.0", "0.10.0.1", "0.10.1.0"}

-----------------------------------------------------------------------------
(* Character-level helpers for the strings the code formats *)

DecDigits == <<"0", "1", "2", "3", "4", "5", "6", "7", "8", "9">>
HexLower == DecDigits \o <<"a", "b", "c", "d", "e", "f">>
HexUpper == DecDigits \o <<"A", "B", "C", "D", "E", "F">>

\* fmt's %d of a non-negative integer
RECURSIVE Dec(_)
Dec(n) == IF n < 10 THEN <<DecDigits[n + 1]>>
          ELSE Dec(n \div 10) \o <<DecDigits[(n % 10) + 1]>>

\* a number left-padded with zeros to w digits, as time.Format pads its fields
RECURSIVE Pad(_, _)
Pad(n, w) == IF w = 0 THEN <<>>
             ELSE Pad(n \div 10, w - 1) \o <<DecDigits[(n % 10) + 1]>>

\* lower-case hex without leading zeros, as net.IP.String prints a group
RECURSIVE Hex(_)
Hex(n) == IF n < 16 THEN <<HexLower[n + 1]>>
          ELSE Hex(n \div 16) \o <<HexLower[(n % 16) + 1]>>

\* fmt.Sprintf("%X", buffer) of a byte slice: two upper-case digits per byte
RECURSIVE SprintfX(_)
SprintfX(buffer) ==
    IF buffer = <<>> THEN <<>>
    ELSE <<HexUpper[(Head(buffer) \div 16) + 1], HexUpper[(Head(buffer) % 16) + 1]>>
         \o SprintfX(Tail(buffer))

\* strings.Replace(s, old, new, -1) for one-character old and new
RECURSIVE Replace(_, _, _)
Replace(s, old, new) ==
    IF s = <<>> THEN <<>>
    ELSE <<IF Head(s) = old THEN new ELSE Head(s)>> \o Replace(Tail(s), old, new)

\* time.Now().UTC().Format(time.RFC3339): "2006-01-02T15:04:05Z"
FormatRFC3339(t) ==
    Pad(t.year, 4) \o <<"-">> \o Pad(t.month, 2) \o <<"-">> \o Pad(t.day, 2)
    \o <<"T">> \o Pad(t.hour, 2) \o <<":">> \o Pad(t.min, 2) \o <<":">>
    \o Pad(t.sec, 2) \o <<"Z">>

-----------------------------------------------------------------------------
(* net.IP: an IPv4 address is its 4 bytes, an IPv6 address its 8 groups *)

\* IP.To4: the 4-byte form, or <<>> (nil) when the address is not IPv4
To4(ip) ==
    IF Len(ip) = 4 THEN ip
    ELSE IF SubSeq(ip, 1, 6) = <<0, 0, 0, 0, 0, 65535>>
         THEN <<ip[7] \div 256, ip[7] % 256, ip[8] \div 256, ip[8] % 256>>
         ELSE <<>>

IsLoopback(ip) ==
    IF To4(ip) # <<>> THEN To4(ip)[1] = 127
    ELSE ip = <<0, 0, 0, 0, 0, 0, 0, 1>>

\* number of consecutive zero groups of g starting at group i
RECURSIVE ZeroRun(_, _)
ZeroRun(g, i) == IF i > Len(g) \/ g[i] # 0 THEN 0 ELSE 1 + ZeroRun(g, i + 1)

\* IP.String: dotted decimal for IPv4; for IPv6 the groups in hex separated
\* by colons, the first longest run of two or more zero groups written "::"
RECURSIVE IPv6Tail(_, _, _, _)
IPv6Tail(g, i, e0, e1) ==
    IF i > Len(g) THEN <<>>
    ELSE IF i = e0
         THEN <<":", ":">> \o (IF e1 > Len(g) THEN <<>>
                               ELSE Hex(g[e1]) \o IPv6Tail(g, e1 + 1, e0, e1))
         ELSE (IF i > 1 THEN <<":">> ELSE <<>>) \o Hex(g[i]) \o IPv6Tail(g, i + 1, e0, e1)

IPString(ip) ==
    IF To4(ip) # <<>>
    THEN LET b == To4(ip)
         IN  Dec(b[1]) \o <<".">> \o Dec(b[2]) \o <<".">> \o Dec(b[3]) \o <<".">> \o Dec(b[4])
    ELSE LET longest == CHOOSE n \in 0..8 :
                            /\ \E i \in 1..8 : ZeroRun(ip, i) = n
                            /\ \A i \in 1..8 : ZeroRun(ip, i) <= n
             e0 == IF longest <= 1 THEN 0
                   ELSE CHOOSE i \in 1..8 :
                            /\ ZeroRun(ip, i) = longest
                            /\ \A j \in 1..(i - 1) : ZeroRun(ip, j) < longest
         IN  IPv6Tail(ip, 1, e0, e0 + longest)

-----------------------------------------------------------------------------
(* getIP, config.go lines 386-405.  The result is <<ip>> or <<>> (error). *)

\* the loop of lines 392-400 from address i on, ipv6 being the candidate so far
RECURSIVE getIPLoop(_, _, _)
getIPLoop(addrs, i, ipv6) ==
    IF i > Len(addrs)
    THEN ipv6
    ELSE IF addrs[i].isIPNet /\ ~IsLoopback(addrs[i].ip)
         THEN IF To4(addrs[i].ip) # <<>>
              THEN <<To4(addrs[i].ip)>>
              ELSE getIPLoop(addrs, i + 1, <<addrs[i].ip>>)
         ELSE getIPLoop(addrs, i + 1, ipv6)

getIP(o) ==
    IF o.addrsErr THEN <<>>
    ELSE getIPLoop(o.addrs, 1, <<>>)

(* newClientID, config.go lines 367-384 *)
newClientID(o) ==
    LET hostname ==
            IF ~o.hostnameErr THEN o.hostname
            ELSE IF getIP(o) = <<>>
                 THEN SprintfX(o.rand)
                 ELSE IPString(getIP(o)[1])
        timestamp == Replace(FormatRFC3339(o.now), ":", ".")
    IN  <<"p", "i", "x", "y", "_">> \o hostname \o <<"_">> \o timestamp
        \o <<"_">> \o Dec(o.pid)

-----------------------------------------------------------------------------
(* Proxy, config.go lines 71-162, and its defaults *)

\* the zero value of the Proxy struct
ZeroProxy ==
    [ClientID  |-> <<>>,
     Kafka     |-> [SeedPeers |-> <<>>, Version |-> ""],
     ZooKeeper |-> [SeedPeers |-> <<>>, Chroot |-> ""],
     Producer  |-> [ChannelBufferSize |-> 0, Compression |-> "", FlushBytes |-> 0,
                    FlushFrequency |-> 0, RetryBackoff |-> 0, RetryMax |-> 0,
                    RequiredAcks |-> "", ShutdownTimeout |-> 0],
     Consumer  |-> [AckTimeout |-> 0, ChannelBufferSize |-> 0, FetchBytes |-> 0,
                    LongPollingTimeout |-> 0, OffsetsCommitInterval |-> 0,
                    RebalanceDelay |-> 0, RegistrationTimeout |-> 0,
                    RetryBackoff |-> 0]]

\* the yaml tag of every struct field (fields of the same name carry the same tag)
YamlTag ==
    [ClientID |-> "client_id", Kafka |-> "kafka", ZooKeeper |-> "zoo_keeper",
     Producer |-> "producer", Consumer |-> "consumer",
     SeedPeers |-> "seed_peers", Version |-> "version", Chroot |-> "chroot",
     ChannelBufferSize |-> "channel_buffer_size", Compression |-> "compression",
     FlushBytes |-> "flush_bytes", FlushFrequency |-> "flush_frequency",
     RetryBackoff |-> "retry_backoff", RetryMax |-> "retry_max",
     RequiredAcks |-> "required_acks", ShutdownTimeout |-> "shutdown_timeout",
     AckTimeout |-> "ack_timeout", FetchBytes |-> "fetch_bytes",
     LongPollingTimeout |-> "long_polling_timeout",
     OffsetsCommitInterval |-> "offsets_commit_interval",
     RebalanceDelay |-> "rebalance_delay",
     RegistrationTimeout |-> "registration_timeout"]

\* defaultProxyWithClientID without line 333: the client id is never stored
defaultProxyWithoutClientID(id, kafkaEnv) ==
    [ZeroProxy EXCEPT
        !.Kafka = [SeedPeers |-> <<"localhost:9092">>,
                   Version   |-> IF kafkaEnv \in kafkaVersions THEN kafkaEnv
                                 ELSE defaultKafkaVersion],
        !.ZooKeeper = [SeedPeers |-> <<"localhost:2181">>, Chroot |-> ""],
        !.Producer = [ChannelBufferSize |-> 4096, Compression |-> defaultCompression,
                      FlushBytes |-> 1024 * 1024, FlushFrequency |-> 500,
                      RetryBackoff |-> 10 * 1000, RetryMax |-> 6,
                      RequiredAcks |-> defaultRequiredAcks,
                      ShutdownTimeout |-> 30 * 1000],
        !.Consumer = [AckTimeout |-> 15 * 1000, ChannelBufferSize |-> 64,
                      FetchBytes |-> 1024 * 1024, LongPollingTimeout |-> 3 * 1000,
                      OffsetsCommitInterval |-> 500, RebalanceDelay |-> 250,
                      RegistrationTimeout |-> 20 * 1000, RetryBackoff |-> 500]]

(* defaultProxyWithClientID, config.go lines 331-363; kafkaEnv is what
   os.Getenv("KAFKA_VERSION") returns *)
defaultProxyWithClientID(id, kafkaEnv) ==
    [ClientID  |-> id,
     Kafka     |-> [SeedPeers |-> <<"localhost:9092">>,
                    Version   |-> IF kafkaEnv \in kafkaVersions THEN kafkaEnv
                                  ELSE defaultKafkaVersion],
     ZooKeeper |-> [SeedPeers |-> <<"localhost:2181">>, Chroot |-> ""],
     Producer  |-> [ChannelBufferSize |-> 4096,
                    Compression       |-> defaultCompression,
                    FlushBytes        |-> 1024 * 1024,
                    FlushFrequency    |-> 500,
                    RetryBackoff      |-> 10 * 1000,
                    RetryMax          |-> 6,
                    RequiredAcks      |-> defaultRequiredAcks,
                    ShutdownTimeout   |-> 30 * 1000],
     Consumer  |-> [AckTimeout            |-> 15 * 1000,
                    ChannelBufferSize     |-> 64,
                    FetchBytes            |-> 1024 * 1024,
                    LongPollingTimeout    |-> 3 * 1000,
                    OffsetsCommitInterval |-> 500,
                    RebalanceDelay        |-> 250,
                    RegistrationTimeout   |-> 20 * 1000,
                    RetryBackoff          |-> 500]]

(* newApp, config.go lines 323-329 *)
newApp ==
    [GRPCAddr |-> "0.0.0.0:19091", TCPAddr |-> "0.0.0.0:19092", UnixAddr |-> "",
     Proxies |-> [c \in {} |-> ZeroProxy], DefaultCluster |-> ""]

-----------------------------------------------------------------------------
(* Proxy.validate, config.go lines 276-321: the error, <<>> for nil *)

\* the consumer checks with the boundary of the first one off by one: equal
\* timeouts pass
validateConsumerAckAbove(q) ==
    IF q.Consumer.AckTimeout > q.Consumer.RegistrationTimeout
    THEN <<"consumer.ack_timeout must be < consumer.registration_timeout">>
    ELSE IF q.Consumer.ChannelBufferSize <= 0
    THEN <<"consumer.channel_buffer_size must be > 0">>
    ELSE IF q.Consumer.FetchBytes <= 0
    THEN <<"consumer.fetch_bytes must be > 0">>
    ELSE IF q.Consumer.LongPollingTimeout <= 0
    THEN <<"consumer.long_polling_timeout must be > 0">>
    ELSE IF q.Consumer.OffsetsCommitInterval <= 0
    THEN <<"consumer.offsets_commit_interval must be > 0">>
    ELSE IF q.Consumer.RebalanceDelay <= 0
    THEN <<"consumer.rebalance_delay must be > 0">>
    ELSE IF q.Consumer.RegistrationTimeout <= 0
    THEN <<"consumer.registration_timeout must be > 0">>
    ELSE IF q.Consumer.RetryBackoff <= 0
    THEN <<"consumer.retry_backoff must be > 0">>
    ELSE <<>>

\* the consumer checks with the registration-timeout check moved to the front
validateConsumerRegistrationFirst(q) ==
    IF q.Consumer.RegistrationTimeout <= 0
    THEN <<"consumer.registration_timeout must be > 0">>
    ELSE IF q.Consumer.AckTimeout >= q.Consumer.RegistrationTimeout
    THEN <<"consumer.ack_timeout must be < consumer.registration_timeout">>
    ELSE IF q.Consumer.ChannelBufferSize <= 0
    THEN <<"consumer.channel_buffer_size must be > 0">>
    ELSE IF q.Consumer.FetchBytes <= 0
    THEN <<"consumer.fetch_bytes must be > 0">>
    ELSE IF q.Consumer.LongPollingTimeout <= 0
    THEN <<"consumer.long_polling_timeout must be > 0">>
    ELSE IF q.Consumer.OffsetsCommitInterval <= 0
    THEN <<"consumer.offsets_commit_interval must be > 0">>
    ELSE IF q.Consumer.RebalanceDelay <= 0
    THEN <<"consumer.rebalance_delay must be > 0">>
    ELSE IF q.Consumer.RetryBackoff <= 0
    THEN <<"consumer.retry_backoff must be > 0">>
    ELSE <<>>

validateConsumer(q) ==
    IF q.Consumer.AckTimeout >= q.Consumer.RegistrationTimeout
    THEN <<"consumer.ack_timeout must be < consumer.registration_timeout">>
    ELSE IF q.Consumer.ChannelBufferSize <= 0
    THEN <<"consumer.channel_buffer_size must be > 0">>
    ELSE IF q.Consumer.FetchBytes <= 0
    THEN <<"consumer.fetch_bytes must be > 0">>
    ELSE IF q.Consumer.LongPollingTimeout <= 0
    THEN <<"consumer.long_polling_timeout must be > 0">>
    ELSE IF q.Consumer.OffsetsCommitInterval <= 0
    THEN <<"consumer.offsets_commit_interval must be > 0">>
    ELSE IF q.Consumer.RebalanceDelay <= 0
    THEN <<"consumer.rebalance_delay must be > 0">>
    ELSE IF q.Consumer.RegistrationTimeout <= 0
    THEN <<"consumer.registration_timeout must be > 0">>
    ELSE IF q.Consumer.RetryBackoff <= 0
    THEN <<"consumer.retry_backoff must be > 0">>
    ELSE <<>>

validate(q) ==
    IF q.Kafka.Version \notin kafkaVersions
    THEN <<"Bad kafka.version: ", q.Kafka.Version>>
    ELSE IF q.Producer.ChannelBufferSize <= 0
    THEN <<"producer.channel_buffer_size must be > 0">>
    ELSE IF q.Producer.FlushBytes < 0
    THEN <<"producer.flush_bytes must be >= 0">>
    ELSE IF q.Producer.FlushFrequency < 0
    THEN <<"producer.flush_frequency must be >= 0">>
    ELSE IF q.Producer.RetryBackoff <= 0
    THEN <<"producer.retry_backoff must be > 0">>
    ELSE IF q.Producer.RetryMax <= 0
    THEN <<"producer.retry_max must be > 0">>
    ELSE IF q.Producer.ShutdownTimeout < 0
    THEN <<"producer.shutdown_timeout must be >= 0">>
    ELSE IF q.Producer.Compression \notin compressionCodecs
    THEN <<"Bad producer.compression: ", q.Producer.Compression>>
    ELSE IF q.Producer.RequiredAcks \notin producerAcks
    THEN <<"Bad producer.required_acks: ", q.Producer.RequiredAcks>>
    ELSE validateConsumer(q)

\* App.validate without the loop over the proxies
AppValidateSkipsProxies(a) ==
    IF DOMAIN a.Proxies = {}
    THEN {<<"at least on proxy must be configured">>}
    ELSE {<<>>}

\* App.validate without the check of lines 265-267
AppValidateAllowsEmpty(a) ==
    LET bad == {c \in DOMAIN a.Proxies : validate(a.Proxies[c]) # <<>>}
    IN  IF bad = {} THEN {<<>>}
        ELSE {<<"invalid config, cluster=", c>> \o validate(a.Proxies[c]) : c \in bad}

(* App.validate, config.go lines 264-274.  The loop ranges over a Go map,
   whose iteration order is unspecified: the error returned is that of
   whichever invalid proxy the iteration meets first, so the operator gives
   the set of errors the call can return. *)
AppValidate(a) ==
    IF DOMAIN a.Proxies = {}
    THEN {<<"at least on proxy must be configured">>}
    ELSE LET bad == {c \in DOMAIN a.Proxies : validate(a.Proxies[c]) # <<>>}
         IN  IF bad = {} THEN {<<>>}
             ELSE {<<"invalid config, cluster=", c>> \o validate(a.Proxies[c]) : c \in bad}

-----------------------------------------------------------------------------
(* The yaml.v2 calls of FromYAML.  A decoded value (MapItem.Value, an
   interface{}) is nil, a scalar or a mapping; a mapping's items go from yaml
   key to value, one level per struct nesting. *)

NoItems == [k \in {} |-> 0]
NilValue == [type |-> "nil", items |-> NoItems]
IntValue == [type |-> "int", items |-> NoItems]
MapValue(items) == [type |-> "map", items |-> items]

\* yaml.Marshal(proxyItem.Value), line 244: nil encodes as the document
\* "null", a mapping as a mapping of its items, an integer as a scalar
Marshal(v) ==
    CASE v.type = "nil" -> [kind |-> "scalar", tag |-> "!!null", items |-> NoItems]
      [] v.type = "int" -> [kind |-> "scalar", tag |-> "!!int", items |-> NoItems]
      [] OTHER          -> [kind |-> "mapping", tag |-> "!!map", items |-> v.items]

\* decoding a mapping onto a struct: a field whose tag is a key of the
\* mapping takes the mapping's value, every other field is left as it was
DecodeSection(items, out) ==
    [f \in DOMAIN out |-> IF YamlTag[f] \in DOMAIN items THEN items[YamlTag[f]]
                          ELSE out[f]]

DecodeProxy(items, out) ==
    [f \in DOMAIN out |->
        IF YamlTag[f] \notin DOMAIN items THEN out[f]
        ELSE IF f = "ClientID" THEN items[YamlTag[f]]
        ELSE DecodeSection(items[YamlTag[f]], out[f])]

\* yaml.Unmarshal(encodedProxyCfg, proxyCfg), line 249: the null document
\* sets the target to its zero value, any other scalar cannot be decoded into
\* a struct, a mapping is decoded field by field
Unmarshal(node, out) ==
    IF node.kind = "scalar" /\ node.tag = "!!null"
    THEN [err |-> <<>>, out |-> ZeroProxy]
    ELSE IF node.kind = "scalar"
    THEN [err |-> <<"yaml: unmarshal errors: cannot unmarshal ", node.tag,
                    " into config.Proxy">>,
          out |-> out]
    ELSE [err |-> <<>>, out |-> DecodeProxy(node.items, out)]

-----------------------------------------------------------------------------
(* FromYAML, config.go lines 227-262 *)

\* cluster, ok := proxyItem.Key.(string), line 237: a failed assertion
\* leaves cluster at the zero value of string
KeyAsString(key) ==
    [cluster |-> IF key.isString THEN key.text ELSE "", ok |-> key.isString]

\* lines 244-251: the proxy of one block, merged onto fresh defaults
MergeBlock(value, id, kafkaEnv) ==
    Unmarshal(Marshal(value), defaultProxyWithClientID(id, kafkaEnv))

\* lines 252-255: store the proxy and pick the default cluster
StoreProxy(a, cluster, proxyCfg) ==
    [a EXCEPT
        !.Proxies = [c \in DOMAIN a.Proxies \cup {cluster} |->
                        IF c = cluster THEN proxyCfg ELSE a.Proxies[c]],
        !.DefaultCluster = IF a.DefaultCluster = "" THEN cluster
                           ELSE a.DefaultCluster]

\* the pair FromYAML returns
Return(app, err) == [app |-> app, err |-> err]
NotReturned == Return(<<>>, <<>>)

\* lines 228-234: parse the document, make the empty App and the client id
ParseConfig ==
    /\ pc = "FromYAML"
    /\ IF data.malformed
       THEN /\ ret' = Return(<<>>, <<"failed to parse config", "yaml: malformed document">>)
            /\ pc' = "done"
            /\ UNCHANGED <<appCfg, clientID>>
       ELSE /\ appCfg' = newApp
            /\ clientID' = newClientID(os)
            /\ pc' = "loop"
            /\ UNCHANGED ret
    /\ UNCHANGED <<data, env, os, idx, p, verr>>

\* lines 236-256: one iteration of the loop over prob.Proxies
ProcessItem ==
    /\ pc = "loop"
    /\ idx < Len(data.Proxies)
    /\ LET proxyItem == data.Proxies[idx + 1]
           k == KeyAsString(proxyItem.Key)
           m == MergeBlock(proxyItem.Value, clientID, env)
       IN  IF ~k.ok
           THEN /\ ret' = Return(<<>>, <<"invalid cluster, ", k.cluster>>)
                /\ pc' = "done"
                /\ UNCHANGED <<appCfg, idx>>
           ELSE IF m.err # <<>>
           THEN /\ ret' = Return(<<>>, <<"failed to parse proxy config, cluster=", k.cluster>>
                                       \o m.err)
                /\ pc' = "done"
                /\ UNCHANGED <<appCfg, idx>>
           ELSE /\ appCfg' = StoreProxy(appCfg, k.cluster, m.out)
                /\ idx' = idx + 1
                /\ UNCHANGED <<ret, pc>>
    /\ UNCHANGED <<data, env, os, clientID, p, verr>>

\* lines 258-261: validate the App and return
ValidateAndReturn ==
    /\ pc = "loop"
    /\ idx = Len(data.Proxies)
    /\ \E e \in AppValidate(appCfg) :
          ret' = IF e # <<>> THEN Return(<<>>, <<"invalid config parameter">> \o e)
                 ELSE Return(<<appCfg>>, <<>>)
    /\ pc' = "done"
    /\ UNCHANGED <<data, env, os, idx, clientID, appCfg, p, verr>>

-----------------------------------------------------------------------------
(* Inputs *)

StrKey(s) == [isString |-> TRUE, text |-> s]
IntKey == [isString |-> FALSE, text |-> "42"]
ClusterNames == {"a", "b", ""}

CustomClientID == <<"m", "e">>

Blocks ==
    { NilValue,
      IntValue,
      MapValue(NoItems),
      MapValue("client_id" :> CustomClientID),
      MapValue("kafka" :> ("version" :> "0.9.0.1")),
      MapValue("consumer" :> ("ack_timeout" :> 30000)),
      MapValue("consumer" :> ("ack_timeout" :> 20000)),
      MapValue("consumer" :> ("ack_timeout" :> 5000 @@ "registration_timeout" :> 10000)),
      MapValue("producer" :> ("retry_max" :> 0)),
      MapValue("kafka" :> ("seed_peers" :> <<"k1:9092", "k2:9092">>)
               @@ "zoo_keeper" :> ("chroot" :> "/pixy")),
      MapValue("kafka" :> ("version" :> "9.9.9") @@ "consumer" :> ("ack_timeout" :> 30000)) }

ProxyItems ==
    {[Key |-> StrKey(n), Value |-> b] : n \in ClusterNames, b \in Blocks}
    \cup {[Key |-> IntKey, Value |-> MapValue(NoItems)]}

Documents ==
    {[malformed |-> TRUE, Proxies |-> <<>>]}
    \cup {[malformed |-> FALSE, Proxies |-> s] :
            s \in UNION {[1..n -> ProxyItems] : n \in 0..MaxItems}}

KafkaEnvs == {"", "0.10.1.0", "9.9.9"}

Times == {[year |-> 2017, month |-> 3, day |-> 9, hour |-> 15, min |-> 4, sec |-> 5],
          [year |-> 2026, month |-> 11, day |-> 30, hour |-> 0, min |-> 0, sec |-> 59]}

HostOS ==
    [hostnameErr |-> FALSE, hostname |-> <<"h", "1">>, addrsErr |-> FALSE,
     addrs |-> <<>>, rand |-> <<0, 0, 0, 0, 0, 0, 0, 0>>,
     now |-> CHOOSE t \in Times : t.year = 2017, pid |-> 7]

InterfaceAddrs ==
    { [isIPNet |-> TRUE,  ip |-> <<127, 0, 0, 1>>],
      [isIPNet |-> TRUE,  ip |-> <<10, 0, 0, 5>>],
      [isIPNet |-> TRUE,  ip |-> <<0, 0, 0, 0, 0, 0, 0, 1>>],
      [isIPNet |-> TRUE,  ip |-> <<65152, 0, 0, 0, 0, 0, 0, 1>>],
      [isIPNet |-> FALSE, ip |-> <<192, 168, 0, 9>>] }

\* a failed call hands back no value beside its error
OSAnswers ==
    {o \in [hostnameErr : BOOLEAN, hostname : {<<>>, <<"h", "1">>},
            addrsErr : BOOLEAN,
            addrs : UNION {[1..n -> InterfaceAddrs] : n \in 0..MaxAddrs},
            rand : {<<0, 0, 0, 0, 0, 0, 0, 0>>, <<222, 173, 190, 239, 0, 1, 9, 255>>},
            now : Times, pid : {7, 4242}] :
        /\ o.hostnameErr => o.hostname = <<>>
        /\ o.addrsErr => o.addrs = <<>>}

ValidatedProxies ==
    [ClientID  : {CustomClientID},
     Kafka     : [SeedPeers : {<<"localhost:9092">>}, Version : {"0.8.2.2", "9.9.9"}],
     ZooKeeper : [SeedPeers : {<<"localhost:2181">>}, Chroot : {""}],
     Producer  : [ChannelBufferSize : {4096, 0}, Compression : {"snappy", "zip"},
                  FlushBytes : {0, -1}, FlushFrequency : {500, -1},
                  RetryBackoff : {10000, 0}, RetryMax : {6, 0},
                  RequiredAcks : {"wait_for_all", "all"},
                  ShutdownTimeout : {0, -1}],
     Consumer  : [AckTimeout : {15000, 20000, -1}, ChannelBufferSize : {64, 0},
                  FetchBytes : {1048576, 0}, LongPollingTimeout : {3000, 0},
                  OffsetsCommitInterval : {500, 0}, RebalanceDelay : {250, 0},
                  RegistrationTimeout : {20000, 0}, RetryBackoff : {500, 0}]]

-----------------------------------------------------------------------------
(* Specification of a FromYAML load *)

Init ==
    /\ data \in Documents
    /\ env \in KafkaEnvs
    /\ os = HostOS
    /\ pc = "FromYAML"
    /\ idx = 0
    /\ clientID = <<>>
    /\ appCfg = newApp
    /\ ret = NotReturned
    /\ p = ZeroProxy
    /\ verr = <<>>

Next == ParseConfig \/ ProcessItem \/ ValidateAndReturn

Spec == Init /\ [][Next]_vars

(* Specification of one call of Proxy.validate *)

InitValidate ==
    /\ p \in ValidatedProxies
    /\ verr = <<>>
    /\ pc = "validate"
    /\ data = [malformed |-> FALSE, Proxies |-> <<>>]
    /\ env = ""
    /\ os = HostOS
    /\ idx = 0
    /\ clientID = <<>>
    /\ appCfg = newApp
    /\ ret = NotReturned

CallValidate ==
    /\ pc = "validate"
    /\ verr' = validate(p)
    /\ pc' = "validated"
    /\ UNCHANGED <<data, env, os, idx, clientID, appCfg, ret, p>>

NextValidate == CallValidate

SpecValidate == InitValidate /\ [][NextValidate]_vars

(* Specification of one call of newClientID *)

InitClientID ==
    /\ os \in OSAnswers
    /\ clientID = <<>>
    /\ pc = "newClientID"
    /\ data = [malformed |-> FALSE, Proxies |-> <<>>]
    /\ env = ""
    /\ idx = 0
    /\ appCfg = newApp
    /\ ret = NotReturned
    /\ p = ZeroProxy
    /\ verr = <<>>

CallNewClientID ==
    /\ pc = "newClientID"
    /\ clientID' = newClientID(os)
    /\ pc' = "returned"
    /\ UNCHANGED <<data, env, os, idx, appCfg, ret, p, verr>>

NextClientID == CallNewClientID

SpecClientID == InitClientID /\ [][NextClientID]_vars

-----------------------------------------------------------------------------
(* What the properties below speak about *)

Range(s) == {s[i] : i \in DOMAIN s}

\* FromYAML has returned an App
Loaded == pc = "done" /\ ret.app # <<>>

\* the proxy items the loop has stored so far under cluster name c
ItemsOf(c) ==
    {i \in 1..idx : data.Proxies[i].Key.isString /\ data.Proxies[i].Key.text = c}

\* the block of the last of them
LastValue(c) ==
    data.Proxies[CHOOSE i \in ItemsOf(c) : \A j \in ItemsOf(c) : j <= i].Value

\* block v sets field fld of section sec (both yaml keys)
BlockSets(v, sec, fld) ==
    v.type = "map" /\ sec \in DOMAIN v.items /\ fld \in DOMAIN v.items[sec]

BlockSetsClientID(v) == v.type = "map" /\ "client_id" \in DOMAIN v.items

\* the proxy the merge law asks for: the block's value for every field the
\* block sets, the default's value for every other field
ExpectedProxy(v, def) ==
    [f \in DOMAIN def |->
        IF f = "ClientID"
        THEN IF BlockSetsClientID(v) THEN v.items["client_id"] ELSE def[f]
        ELSE [g \in DOMAIN def[f] |->
                IF BlockSets(v, YamlTag[f], YamlTag[g])
                THEN v.items[YamlTag[f]][YamlTag[g]]
                ELSE def[f][g]]]

\* the per-proxy checks in the order the validator is specified to apply them
CheckHolds(k, q) ==
    CASE k = 1  -> q.Kafka.Version \in kafkaVersions
      [] k = 2  -> q.Producer.ChannelBufferSize > 0
      [] k = 3  -> q.Producer.FlushBytes >= 0
      [] k = 4  -> q.Producer.FlushFrequency >= 0
      [] k = 5  -> q.Producer.RetryBackoff > 0
      [] k = 6  -> q.Producer.RetryMax > 0
      [] k = 7  -> q.Producer.ShutdownTimeout >= 0
      [] k = 8  -> q.Producer.Compression \in {"none", "gzip", "snappy", "lz4"}
      [] k = 9  -> q.Producer.RequiredAcks \in {"no_response", "wait_for_local", "wait_for_all"}
      [] k = 10 -> q.Consumer.AckTimeout < q.Consumer.RegistrationTimeout
      [] k = 11 -> q.Consumer.ChannelBufferSize > 0
      [] k = 12 -> q.Consumer.FetchBytes > 0
      [] k = 13 -> q.Consumer.LongPollingTimeout > 0
      [] k = 14 -> q.Consumer.OffsetsCommitInterval > 0
      [] k = 15 -> q.Consumer.RebalanceDelay > 0
      [] k = 16 -> q.Consumer.RegistrationTimeout > 0
      [] OTHER  -> q.Consumer.RetryBackoff > 0

\* the field each check's error names
CheckField ==
    <<"kafka.version", "producer.channel_buffer_size", "producer.flush_bytes",
      "producer.flush_frequency", "producer.retry_backoff", "producer.retry_max",
      "producer.shutdown_timeout", "producer.compression", "producer.required_acks",
      "consumer.ack_timeout", "consumer.channel_buffer_size", "consumer.fetch_bytes",
      "consumer.long_polling_timeout", "consumer.offsets_commit_interval",
      "consumer.rebalance_delay", "consumer.registration_timeout",
      "consumer.retry_backoff">>

\* the first message part of the error of each check
CheckMessage ==
    <<"Bad kafka.version: ",
      "producer.channel_buffer_size must be > 0",
      "producer.flush_bytes must be >= 0",
      "producer.flush_frequency must be >= 0",
      "producer.retry_backoff must be > 0",
      "producer.retry_max must be > 0",
      "producer.shutdown_timeout must be >= 0",
      "Bad producer.compression: ",
      "Bad producer.required_acks: ",
      "consumer.ack_timeout must be < consumer.registration_timeout",
      "consumer.channel_buffer_size must be > 0",
      "consumer.fetch_bytes must be > 0",
      "consumer.long_polling_timeout must be > 0",
      "consumer.offsets_commit_interval must be > 0",
      "consumer.rebalance_delay must be > 0",
      "consumer.registration_timeout must be > 0",
      "consumer.retry_backoff must be > 0">>

NumChecks == Len(CheckMessage)

Violated(q) == {k \in 1..NumChecks : ~CheckHolds(k, q)}

PassesEveryCheck(q) == Violated(q) = {}

FirstViolated(q) == CHOOSE k \in Violated(q) : \A j \in Violated(q) : k <= j

AckMessage == "consumer.ack_timeout must be < consumer.registration_timeout"

\* the error FromYAML returns for the ack-timeout violation of cluster c
AckErrorOf(c) ==
    <<"invalid config parameter", "invalid config, cluster=", c, AckMessage>>

-----------------------------------------------------------------------------
(* Properties *)

\* C1: merge preserves untouched defaults.  For every block the loop has
\* stored, null block included, the proxy stored under the block's cluster
\* has the block's value in every field the block sets and the value of
\* defaultProxyWithClientID(clientID) in every other field.
C1_MergePreservesDefaults ==
    pc \in {"loop", "done"} =>
        \A i \in 1..idx :
            LET c == data.Proxies[i].Key.text
            IN  /\ c \in DOMAIN appCfg.Proxies
                /\ appCfg.Proxies[c] =
                       ExpectedProxy(data.Proxies[i].Value,
                                     defaultProxyWithClientID(clientID, env))

\* C2: after every successful load of a document listing clusters n1..nk,
\* k >= 1, DefaultCluster is n1.
C2_DefaultClusterIsFirst ==
    (Loaded /\ Len(data.Proxies) >= 1) =>
        ret.app[1].DefaultCluster = data.Proxies[1].Key.text

\* C3: the load is all-or-nothing.  FromYAML returns either an App and a nil
\* error, every proxy of the App passing every per-proxy check, or an error
\* and a nil App; a document with a non-string key or an undecodable block at
\* any position, or one that cannot be parsed, never returns an App.
C3_AllOrNothing ==
    pc = "done" =>
        /\ \/ /\ ret.app # <<>>
              /\ ret.err = <<>>
              /\ \A c \in DOMAIN ret.app[1].Proxies :
                    PassesEveryCheck(ret.app[1].Proxies[c])
           \/ /\ ret.app = <<>>
              /\ ret.err # <<>>
        /\ ( \/ data.malformed
             \/ \E i \in 1..Len(data.Proxies) :
                    \/ ~data.Proxies[i].Key.isString
                    \/ data.Proxies[i].Value.type = "int" )
           => ret.app = <<>>

\* a failing block in second position, after a block that merged
C3_Witness ==
    /\ pc = "done"
    /\ idx = 1
    /\ Len(data.Proxies) = 2
    /\ data.Proxies[2].Value.type = "int"
    /\ DOMAIN appCfg.Proxies # {}
    /\ ret.app = <<>>
    /\ ret.err # <<>>

\* block v sets ack_timeout above the registration timeout in force for it
SetsAckAboveRegistration(v) ==
    /\ BlockSets(v, "consumer", "ack_timeout")
    /\ v.items["consumer"]["ack_timeout"] >
           (IF BlockSets(v, "consumer", "registration_timeout")
            THEN v.items["consumer"]["registration_timeout"]
            ELSE defaultProxyWithClientID(clientID, env).Consumer.RegistrationTimeout)

\* the first two parts of C4: every proxy with ack timeout >= registration
\* timeout is rejected by the validator, and no loaded App holds one
AckAtLeastRegistrationRejected ==
    /\ \A c \in DOMAIN appCfg.Proxies :
          appCfg.Proxies[c].Consumer.AckTimeout
              >= appCfg.Proxies[c].Consumer.RegistrationTimeout
          => validate(appCfg.Proxies[c]) # <<>>
    /\ Loaded =>
          \A c \in DOMAIN ret.app[1].Proxies :
              ret.app[1].Proxies[c].Consumer.AckTimeout
                  < ret.app[1].Proxies[c].Consumer.RegistrationTimeout

\* C4 as stated: the two parts above, and every load with a block that sets
\* ack_timeout above registration_timeout fails with the ack-timeout error
\* naming the block's cluster.
C4_AckAboveRegistrationNamed ==
    /\ AckAtLeastRegistrationRejected
    /\ pc = "done" =>
          \A i \in 1..Len(data.Proxies) :
              (data.Proxies[i].Key.isString
               /\ SetsAckAboveRegistration(data.Proxies[i].Value))
              => /\ ret.app = <<>>
                 /\ ret.err = AckErrorOf(data.Proxies[i].Key.text)

\* C4 amended: the two parts above; a load whose loop ends with a stored
\* proxy having ack timeout >= registration timeout fails in validation; and
\* the error is the ack-timeout error naming that cluster when it is the
\* only invalid stored proxy and violates no check ordered before that one.
C4_AckAtLeastRegistrationFails ==
    /\ AckAtLeastRegistrationRejected
    /\ (pc = "done" /\ ~data.malformed /\ idx = Len(data.Proxies)) =>
          \A c \in DOMAIN appCfg.Proxies :
              appCfg.Proxies[c].Consumer.AckTimeout
                  >= appCfg.Proxies[c].Consumer.RegistrationTimeout
              => /\ ret.app = <<>>
                 /\ ret.err # <<>>
                 /\ ret.err[1] = "invalid config parameter"
                 /\ ( /\ \A d \in DOMAIN appCfg.Proxies \ {c} :
                            PassesEveryCheck(appCfg.Proxies[d])
                      /\ \A k \in 1..9 : CheckHolds(k, appCfg.Proxies[c]) )
                    => ret.err = AckErrorOf(c)

\* the boundary: a stored proxy whose two timeouts are equal, rejected with
\* the error naming its cluster and both fields
C4_Witness ==
    /\ pc = "done"
    /\ \E c \in DOMAIN appCfg.Proxies :
          /\ appCfg.Proxies[c].Consumer.AckTimeout
                 = appCfg.Proxies[c].Consumer.RegistrationTimeout
          /\ ret.err = AckErrorOf(c)
          /\ ret.app = <<>>

\* C5: every loaded App has at least one proxy and a DefaultCluster that is
\* a key of its mapping; a document without proxies is rejected by the
\* validator.
C5_DefaultClusterPresent ==
    /\ Loaded =>
          /\ DOMAIN ret.app[1].Proxies # {}
          /\ ret.app[1].DefaultCluster \in DOMAIN ret.app[1].Proxies
    /\ (pc = "done" /\ ~data.malformed /\ Len(data.Proxies) = 0) =>
          /\ ret.app = <<>>
          /\ ret.err = <<"invalid config parameter", "at least on proxy must be configured">>

\* a loaded App with two clusters, the first one named by the empty string
C5_Witness ==
    /\ Loaded
    /\ Cardinality(DOMAIN ret.app[1].Proxies) = 2
    /\ data.Proxies[1].Key.text = ""
    /\ ret.app[1].DefaultCluster \in DOMAIN ret.app[1].Proxies

\* C6: the version of every stored proxy is the kafka.version of its block
\* when the block sets one, else KAFKA_VERSION when that is a supported
\* version, else 0.8.2.2; an unsupported KAFKA_VERSION is never a proxy's
\* version.
C6_VersionThreeTiers ==
    pc \in {"loop", "done"} =>
        \A c \in DOMAIN appCfg.Proxies :
            /\ appCfg.Proxies[c].Kafka.Version =
                   (IF BlockSets(LastValue(c), "kafka", "version")
                    THEN LastValue(c).items["kafka"]["version"]
                    ELSE IF env \in kafkaVersions THEN env
                    ELSE "0.8.2.2")
            /\ (env \notin kafkaVersions /\ env # "")
                   => (appCfg.Proxies[c].Kafka.Version = env
                         => BlockSets(LastValue(c), "kafka", "version"))

\* C7: a cluster key that is not a string is rejected with an error that
\* carries the rejected key.
C7_InvalidKeyNamed ==
    (pc = "done" /\ ~data.malformed /\ idx < Len(data.Proxies)
        /\ ~data.Proxies[idx + 1].Key.isString)
    => /\ ret.app = <<>>
       /\ ret.err = <<"invalid cluster, ", data.Proxies[idx + 1].Key.text>>

\* C8: one client id per load, made before the first block is merged: from
\* then on clientID is newClientID's value, and in a loaded App every
\* cluster whose block omits client_id has that id (so any two of them have
\* equal ids), while a cluster whose block sets client_id has the block's.
C8_SharedClientID ==
    /\ pc \in {"loop", "done"} /\ ~data.malformed => clientID = newClientID(os)
    /\ Loaded =>
          \A c \in DOMAIN ret.app[1].Proxies :
              ret.app[1].Proxies[c].ClientID =
                  (IF BlockSetsClientID(LastValue(c))
                   THEN LastValue(c).items["client_id"]
                   ELSE clientID)

\* a loaded App with two clusters that omit client_id and one id between them
C8_Witness ==
    /\ Loaded
    /\ \E c, d \in DOMAIN ret.app[1].Proxies :
          /\ c # d
          /\ ~BlockSetsClientID(LastValue(c))
          /\ ~BlockSetsClientID(LastValue(d))
          /\ ret.app[1].Proxies[c].ClientID = ret.app[1].Proxies[d].ClientID
          /\ ret.app[1].Proxies[c].ClientID # <<>>

\* C9: Proxy.validate returns nil exactly when no check is violated, and
\* otherwise the error of the earliest violated check in the fixed order.
C9_FirstViolatedCheckWins ==
    pc = "validated" =>
        IF PassesEveryCheck(p) THEN verr = <<>>
        ELSE /\ verr # <<>>
             /\ verr[1] = CheckMessage[FirstViolated(p)]

\* a registration timeout <= 0 together with an ack timeout >= it, reported
\* as the ack-timeout violation
C9_Witness ==
    /\ pc = "validated"
    /\ p.Consumer.RegistrationTimeout <= 0
    /\ p.Consumer.AckTimeout >= p.Consumer.RegistrationTimeout
    /\ Cardinality(Violated(p)) >= 3
    /\ verr = <<AckMessage>>

\* C10: the client id newClientID returns holds no colon and is not empty.
C10_NoColonNotEmpty ==
    pc = "returned" => (clientID # <<>> /\ ":" \notin Range(clientID))

=============================================================================
